---- MODULE Spec2Model ----
(***************************************************************************)
(* A model of src/main.rs of codecrafters-bittorrent-rust: the bencode     *)
(* module's two FromStr implementations (Data, IntegerFieldKey), the free  *)
(* function decode_bencoded_value and the CLI's main.                      *)
(*                                                                         *)
(* A Rust &str is modelled as a sequence of characters; each character is  *)
(* a one-token string.  One character of the alphabet (SuperscriptTwo,     *)
(* U+00B2) is not ASCII: it is two bytes long in UTF-8, it is numeric for  *)
(* char::is_numeric and it is no digit for char::is_digit(10) or for the   *)
(* integer parsers.                                                        *)
(***************************************************************************)
EXTENDS Integers, Sequences, FiniteSets, TLC

VARIABLES
    calls,      \* the functions entered, in call order
    argc,       \* main: the length of env::args()
    command,    \* main: args[1] (meaningful when argc >= 2)
    input,      \* the &str handed to the decoder (main: args[2], when argc >= 3)
    value,      \* round trip: the Value handed to encode
    result,     \* what the entered function returned (or its panic)
    stdout      \* lines written to standard output

vars == <<calls, argc, command, input, value, result, stdout>>

(***************************** bounds ***************************************)
\* longest input string, in characters
MaxLen == 4
\* longest ByteString content of a Value handed to encode, in characters
MaxValLen == 2
\* largest magnitude of an Integer Value handed to encode
MaxInt == 2

(***************************** strings **************************************)
SuperscriptTwo == "sup2"

Alphabet == {"0", "1", "2", ":", "+", "-", "i", "e", SuperscriptTwo}

StringsUpTo(n) == UNION {[1..k -> Alphabet] : k \in 0..n}

Strings == StringsUpTo(MaxLen)

Commands == {"decode", "Decode", "info"}

\* char::is_digit(10) and the digit test of the integer parsers: ASCII 0-9 only
DigitValue(c) ==
    CASE c = "0" -> 0 [] c = "1" -> 1 [] c = "2" -> 2 [] c = "3" -> 3
      [] c = "4" -> 4 [] c = "5" -> 5 [] c = "6" -> 6 [] c = "7" -> 7
      [] c = "8" -> 8 [] c = "9" -> 9 [] OTHER -> -1

IsDigit10(c) == DigitValue(c) >= 0

\* char::is_numeric mistaken for an ASCII digit test (char::is_ascii_digit)
IsNumericAsciiOnly(c) == IsDigit10(c)

\* char::is_numeric: the Unicode categories Nd, Nl and No
IsNumeric(c) == IsDigit10(c) \/ c = SuperscriptTwo

\* the UTF-8 length of a character
ByteWidth(c) == IF c = SuperscriptTwo THEN 2 ELSE 1

RECURSIVE ByteLen(_)
ByteLen(s) == IF s = <<>> THEN 0 ELSE ByteWidth(Head(s)) + ByteLen(Tail(s))

\* the byte offset just after the first n characters of s
ByteOffset(s, n) == ByteLen(SubSeq(s, 1, n))

\* the character index of the first c in s, 0 when there is none
FirstIndex(s, c) ==
    IF \E i \in 1..Len(s) : s[i] = c
    THEN CHOOSE i \in 1..Len(s) : s[i] = c /\ \A j \in 1..(i - 1) : s[j] # c
    ELSE 0

(***************************** results **************************************)
NoResult == [tag |-> "None"]

PanicResult(why) == [tag |-> "Panic", why |-> why]

IoError(kind, msg) == [tag |-> "Err", kind |-> kind, msg |-> msg]

DataOk(length, content) ==
    [tag |-> "Ok", kind |-> "Str", length |-> length, content |-> content]

(***************************** str::parse ***********************************)
ParseOk(n) == [ok |-> TRUE, value |-> n, msg |-> ""]

ParseErr(msg) == [ok |-> FALSE, value |-> 0, msg |-> msg]

RECURSIVE DecimalValue(_, _)
\* the digits of s accumulated left to right onto acc (s holds digits only)
DecimalValue(s, acc) ==
    IF s = <<>> THEN acc
    ELSE DecimalValue(Tail(s), acc * 10 + DigitValue(Head(s)))

\* <integer type>::from_str: an empty string, a lone sign and any character
\* that is no ASCII digit are errors; a leading '+' is accepted by every type,
\* a leading '-' by the signed types only.  Overflow of the target type needs
\* more digits than MaxLen allows (10 for i32, 19 for i64, 20 for usize) and
\* is not modelled.
ParseInteger(src, signed) ==
    IF src = <<>> THEN ParseErr("cannot parse integer from empty string")
    ELSE IF src = <<"+">> \/ src = <<"-">>
    THEN ParseErr("invalid digit found in string")
    ELSE LET negative == signed /\ Head(src) = "-"
             digits == IF Head(src) = "+" \/ negative THEN Tail(src) ELSE src
         IN  IF \A i \in 1..Len(digits) : IsDigit10(digits[i])
             THEN ParseOk(IF negative THEN 0 - DecimalValue(digits, 0)
                                      ELSE DecimalValue(digits, 0))
             ELSE ParseErr("invalid digit found in string")

ParseUsize(src) == ParseInteger(src, FALSE)

ParseI32(src) == ParseInteger(src, TRUE)

ParseI64(src) == ParseInteger(src, TRUE)

(***************************** str::split ***********************************)
RECURSIVE Split(_, _)
\* s.split(sep), collected: the pieces of s between the occurrences of sep,
\* empty pieces included; a string without sep is one piece
Split(s, sep) ==
    LET k == FirstIndex(s, sep)
    IN  IF k = 0 THEN <<s>>
        ELSE <<SubSeq(s, 1, k - 1)>> \o Split(SubSeq(s, k + 1, Len(s)), sep)

\* Iterator::nth(0) on an iterator whose remaining items are it: the next
\* item, if any, and the iterator after it
Nth0(it) ==
    IF it = <<>> THEN [some |-> FALSE, item |-> <<>>, rest |-> <<>>]
    ELSE [some |-> TRUE, item |-> Head(it), rest |-> Tail(it)]

(***************************** bencode::Data ********************************)
\* from_str splitting at the first ':' only (s.splitn(2, ':')): the content
\* may then hold ':' itself
DataFromStrSplitOnce(s) ==
    LET k == FirstIndex(s, ":")
    IN  IF k = 0
        THEN IoError("InvalidData", "expected splitcount 2, got 1")
        ELSE LET parsing == ParseUsize(SubSeq(s, 1, k - 1))
             IN  IF parsing.ok
                 THEN DataOk(parsing.value, SubSeq(s, k + 1, Len(s)))
                 ELSE IoError("InvalidData", parsing.msg)

\* <Data as FromStr>::from_str
DataFromStr(s) ==
    LET spl == Split(s, ":")
        cnt == Len(spl)
    IN  IF cnt = 2
        THEN LET first == Nth0(spl)
             IN  IF first.some
                 THEN LET parsing == ParseUsize(first.item)
                      IN  IF parsing.ok
                          THEN LET second == Nth0(first.rest)
                               IN  IF second.some
                                   THEN DataOk(parsing.value, second.item)
                                   ELSE IoError("InvalidData", "failed to get content")
                          ELSE IoError("InvalidData", parsing.msg)
                 ELSE IoError("InvalidData", "coulndt parse length value")
        ELSE IoError("InvalidData", "expected splitcount 2, got " \o ToString(cnt))

(***************************** bencode::IntegerFieldKey *********************)
KeyOk(n) == [tag |-> "Ok", kind |-> "IntegerFieldKey", value |-> n]

KeyErr(kind) == [tag |-> "Err", kind |-> kind, msg |-> ""]

\* s.chars().any(char::is_numeric)
AnyNumeric(s) == \E i \in 1..Len(s) : IsNumeric(s[i])

\* <IntegerFieldKey as FromStr>::from_str
IntegerFieldKeyFromStr(s) ==
    IF AnyNumeric(s) THEN KeyErr("InvalidInput")
    ELSE LET key == Nth0(Split(s, ":"))
             val == Nth0(key.rest)
         IN  IF key.some /\ val.some
             THEN LET parsed == ParseI32(val.item)
                  IN  IF parsed.ok THEN KeyOk(parsed.value)
                      ELSE PanicResult("called Result::unwrap() on an Err value")
             ELSE KeyErr("InvalidData")

(***************************** decode_bencoded_value ************************)
JsonString(content) == [tag |-> "Ok", kind |-> "JsonString", content |-> content]

\* &s[from..to] with byte offsets: the characters between the two offsets
\* when both are character boundaries inside s in order, a panic otherwise
ByteSlice(s, from, to) ==
    LET cuts == {n \in 0..Len(s) : ByteOffset(s, n) = from}
        ends == {n \in 0..Len(s) : ByteOffset(s, n) = to}
    IN  IF from <= to /\ cuts # {} /\ ends # {}
        THEN [ok |-> TRUE,
              text |-> SubSeq(s, (CHOOSE n \in cuts : TRUE) + 1, CHOOSE n \in ends : TRUE)]
        ELSE [ok |-> FALSE, text |-> <<>>]

\* decode_bencoded_value
DecodeBencodedValue(encoded_value) ==
    IF encoded_value = <<>>
    THEN PanicResult("called Option::unwrap() on a None value")
    ELSE IF IsDigit10(Head(encoded_value))
    THEN LET k == FirstIndex(encoded_value, ":")
         IN  IF k = 0
             THEN PanicResult("called Option::unwrap() on a None value")
             ELSE LET colon_index == ByteOffset(encoded_value, k - 1)
                      number_string == SubSeq(encoded_value, 1, k - 1)
                      number == ParseI64(number_string)
                  IN  IF ~number.ok
                      THEN PanicResult("called Result::unwrap() on an Err value")
                      ELSE LET string == ByteSlice(encoded_value, colon_index + 1,
                                                   colon_index + 1 + number.value)
                           IN  IF string.ok THEN JsonString(string.text)
                               ELSE PanicResult("byte index out of range or not a char boundary")
    ELSE PanicResult("Unhandled encoded value")

(***************************** main *****************************************)
UnitOk == [tag |-> "Ok", kind |-> "Unit"]

LogLine == "Logs from your program will appear here!"

\* main without the ? after Data::from_str: the decoder's error is dropped
MainRunDropsError(n, cmd, s) ==
    IF n < 2
    THEN [calls |-> <<"main">>, stdout |-> <<>>,
          result |-> PanicResult("index out of bounds")]
    ELSE IF cmd = "decode"
    THEN IF n < 3
         THEN [calls |-> <<"main">>, stdout |-> <<LogLine>>,
               result |-> PanicResult("index out of bounds")]
         ELSE [calls |-> <<"main", "Data::from_str">>, stdout |-> <<LogLine>>,
               result |-> UnitOk]
    ELSE [calls |-> <<"main">>, stdout |-> <<>>,
          result |-> IoError("InvalidInput", "unknown command: " \o cmd)]

\* main, run with env::args() of length n, args[1] = cmd and args[2] = s (where
\* present): the functions it enters, what it prints and what it returns.  The
\* ? operator hands the decoder's error back as main's own.
MainRun(n, cmd, s) ==
    IF n < 2
    THEN [calls |-> <<"main">>, stdout |-> <<>>,
          result |-> PanicResult("index out of bounds")]
    ELSE IF cmd = "decode"
    THEN IF n < 3
         THEN [calls |-> <<"main">>, stdout |-> <<LogLine>>,
               result |-> PanicResult("index out of bounds")]
         ELSE LET decoded_value == DataFromStr(s)
              IN  [calls |-> <<"main", "Data::from_str">>, stdout |-> <<LogLine>>,
                   result |-> IF decoded_value.tag = "Ok" THEN UnitOk
                              ELSE decoded_value]
    ELSE [calls |-> <<"main">>, stdout |-> <<>>,
          result |-> IoError("InvalidInput", "unknown command: " \o cmd)]

\* the process exit status the Rust runtime derives from main's outcome
ExitStatus(r) ==
    IF r.tag = "Ok" THEN 0 ELSE IF r.tag = "Err" THEN 1 ELSE 101

(***************************** encode (spec 4.3) ****************************)
ByteString(bytes) == [kind |-> "ByteString", bytes |-> bytes]

Integer(n) == [kind |-> "Integer", int |-> n]

List(items) == [kind |-> "List", items |-> items]

NoValue == [kind |-> "None"]

\* the well-formed Values handed to encode
Values ==
    {ByteString(b) : b \in StringsUpTo(MaxValLen)}
        \cup {Integer(n) : n \in (0 - MaxInt)..MaxInt}
        \cup {List(<<>>)}

RECURSIVE ToDecimal(_)
\* n >= 0 in decimal, no leading zero
ToDecimal(n) ==
    IF n < 10 THEN <<ToString(n)>>
    ELSE ToDecimal(n \div 10) \o <<ToString(n % 10)>>

RECURSIVE Encode(_)
RECURSIVE EncodeAll(_)
EncodeAll(items) ==
    IF items = <<>> THEN <<>> ELSE Encode(Head(items)) \o EncodeAll(Tail(items))

\* encode: <len>:<bytes>, i<decimal>e, l<elements>e
Encode(v) ==
    CASE v.kind = "ByteString" -> ToDecimal(ByteLen(v.bytes)) \o <<":">> \o v.bytes
      [] v.kind = "Integer" ->
            <<"i">> \o (IF v.int < 0 THEN <<"-">> \o ToDecimal(0 - v.int)
                                     ELSE ToDecimal(v.int)) \o <<"e">>
      [] v.kind = "List" -> <<"l">> \o EncodeAll(v.items) \o <<"e">>

\* the Value a decoded Data stands for
AsValue(r) ==
    IF r.tag = "Ok" /\ r.kind = "Str" THEN ByteString(r.content) ELSE NoValue

(***************************** the state machine ****************************)
Init ==
    /\ calls = <<>>
    /\ argc = 0
    /\ command = ""
    /\ input = <<>>
    /\ value = NoValue
    /\ result = NoResult
    /\ stdout = <<>>

\* a caller hands s to Data::from_str
CallDataFromStr ==
    /\ calls = <<>>
    /\ \E s \in Strings :
        /\ input' = s
        /\ result' = DataFromStr(s)
    /\ calls' = <<"Data::from_str">>
    /\ UNCHANGED <<argc, command, value, stdout>>

\* a caller hands s to IntegerFieldKey::from_str
CallIntegerFieldKeyFromStr ==
    /\ calls = <<>>
    /\ \E s \in Strings :
        /\ input' = s
        /\ result' = IntegerFieldKeyFromStr(s)
    /\ calls' = <<"IntegerFieldKey::from_str">>
    /\ UNCHANGED <<argc, command, value, stdout>>

\* a caller hands s to decode_bencoded_value
CallDecodeBencodedValue ==
    /\ calls = <<>>
    /\ \E s \in Strings :
        /\ input' = s
        /\ result' = DecodeBencodedValue(s)
    /\ calls' = <<"decode_bencoded_value">>
    /\ UNCHANGED <<argc, command, value, stdout>>

\* the program is run with n - 1 command-line arguments
Main ==
    /\ calls = <<>>
    /\ \E n \in 1..3, cmd \in Commands, s \in Strings :
        /\ n < 2 => cmd = "decode"
        /\ n < 3 => s = <<>>
        /\ argc' = n
        /\ command' = (IF n >= 2 THEN cmd ELSE "")
        /\ input' = s
        /\ LET run == MainRun(n, cmd, s)
           IN  /\ calls' = run.calls
               /\ stdout' = run.stdout
               /\ result' = run.result
    /\ UNCHANGED value

\* a caller encodes v and decodes the bytes with the program's decoder
RoundTrip ==
    /\ calls = <<>>
    /\ \E v \in Values :
        /\ value' = v
        /\ input' = Encode(v)
        /\ result' = DataFromStr(Encode(v))
    /\ calls' = <<"encode", "Data::from_str">>
    /\ UNCHANGED <<argc, command, stdout>>

Next ==
    \/ CallDataFromStr
    \/ CallIntegerFieldKeyFromStr
    \/ CallDecodeBencodedValue
    \/ Main
    \/ RoundTrip

Spec == Init /\ [][Next]_vars

\* the function the caller entered
Entry == IF calls = <<>> THEN "none" ELSE Head(calls)

(***************************** vocabulary of the claims *********************)
ColonCount(s) == Cardinality({i \in 1..Len(s) : s[i] = ":"})

HasColon(s) == \E i \in 1..Len(s) : s[i] = ":"

\* the text before / after the first ':' of a string that has one
BeforeColon(s) == SubSeq(s, 1, FirstIndex(s, ":") - 1)

AfterColon(s) == SubSeq(s, FirstIndex(s, ":") + 1, Len(s))

AsciiDigits == {"0", "1", "2", "3", "4", "5", "6", "7", "8", "9"}

NumericChars == AsciiDigits \cup {SuperscriptTwo}

AllDigits(p) == \A i \in 1..Len(p) : p[i] \in AsciiDigits

\* a decimal number without sign or leading zero
CanonicalDecimal(p) == p # <<>> /\ AllDigits(p) /\ (Len(p) > 1 => p[1] # "0")

\* '<L>:<content>' with exactly L content bytes
WellFormedByteString(s) ==
    /\ HasColon(s)
    /\ CanonicalDecimal(BeforeColon(s))
    /\ ByteLen(AfterColon(s)) = DecimalValue(BeforeColon(s), 0)

\* '<L>:<content>' with fewer than L content bytes
TruncatedByteString(s) ==
    /\ HasColon(s)
    /\ CanonicalDecimal(BeforeColon(s))
    /\ ByteLen(AfterColon(s)) < DecimalValue(BeforeColon(s), 0)

\* a length prefix that is missing, holds a non-digit, or has a leading zero
\* while L # 0
MalformedLengthPrefix(s) ==
    /\ HasColon(s)
    /\ LET p == BeforeColon(s)
       IN  \/ p = <<>>
           \/ ~AllDigits(p)
           \/ Len(p) > 1 /\ p[1] = "0" /\ DecimalValue(p, 0) # 0

\* 'i' ['-'] digits 'e', no leading zero, not '-0'
IsIntegerToken(s) ==
    /\ Len(s) >= 3
    /\ s[1] = "i"
    /\ s[Len(s)] = "e"
    /\ LET body == SubSeq(s, 2, Len(s) - 1)
           digits == IF body[1] = "-" THEN Tail(body) ELSE body
       IN  CanonicalDecimal(digits) /\ (body[1] = "-" => digits # <<"0">>)

IntegerTokenValue(s) ==
    LET body == SubSeq(s, 2, Len(s) - 1)
    IN  IF body[1] = "-" THEN 0 - DecimalValue(Tail(body), 0)
        ELSE DecimalValue(body, 0)

DecodeEntryPoints ==
    {"Data::from_str", "IntegerFieldKey::from_str", "decode_bencoded_value"}

(***************************** the claims ***********************************)
\* C1: decoding '<L>:<content>' with exactly L content bytes (':' bytes
\* included) succeeds and yields a byte string holding exactly the content.
C1_WellFormedByteStringDecodes ==
    (Entry = "Data::from_str" /\ WellFormedByteString(input)) =>
        /\ result.tag = "Ok"
        /\ result.kind = "Str"
        /\ result.content = AfterColon(input)

\* C2: a byte string whose declared length exceeds the bytes after ':' is
\* rejected with an error; no value is returned.
C2_TruncatedInputRejected ==
    (Entry = "Data::from_str" /\ TruncatedByteString(input)) => result.tag = "Err"

\* C3: in every Data that Data::from_str returns, the length field equals the
\* byte count of the Kind::Str content.
C3_LengthMatchesContent ==
    (Entry = "Data::from_str" /\ result.tag = "Ok") =>
        result.length = ByteLen(result.content)

\* C4: a byte string whose length prefix is missing, holds a non-digit (a sign
\* included) or has a leading zero while L # 0 is rejected with an error.
C4_MalformedLengthRejected ==
    (Entry = "Data::from_str" /\ MalformedLengthPrefix(input)) => result.tag = "Err"

\* C5: no decode entry point panics, whatever its input.
C5_NoPanic ==
    Entry \in DecodeEntryPoints => result.tag # "Panic"

\* C6: decoding an integer token i<decimal>e succeeds and yields the integer
\* of that decimal value.
C6_IntegerTokenDecodes ==
    (Entry \in DecodeEntryPoints /\ IsIntegerToken(input)) =>
        /\ result.tag = "Ok"
        /\ result.kind \in {"Int", "IntegerFieldKey"}
        /\ result.value = IntegerTokenValue(input)

\* C7: round trip: decode(encode(v)) is a value equal to v, and encoding that
\* value again gives back the canonical bytes encode(v).
C7_RoundTrip ==
    Entry = "encode" =>
        /\ result.tag = "Ok"
        /\ AsValue(result) = value
        /\ Encode(AsValue(result)) = input

\* C8: run as 'decode <encoded_value>', main returns Err (a non-zero exit
\* status) exactly when the argument does not decode and Ok (status 0) when it
\* does; run with any other command it returns the InvalidInput error
\* 'unknown command: <command>' and never enters the decoder.
C8_MainExitFollowsDecode ==
    (Entry = "main" /\ argc >= 2) =>
        IF command = "decode"
        THEN argc = 3 =>
                LET decodes == ColonCount(input) = 1 /\ ParseUsize(BeforeColon(input)).ok
                IN  /\ decodes => (result = UnitOk /\ ExitStatus(result) = 0)
                    /\ ~decodes => (result.tag = "Err" /\ ExitStatus(result) # 0)
        ELSE /\ result = IoError("InvalidInput", "unknown command: " \o command)
             /\ calls = <<"main">>

\* C8 witness: main was run as 'decode <encoded_value>', entered the decoder
\* and returned its error.
C8_Witness ==
    /\ calls = <<"main", "Data::from_str">>
    /\ command = "decode"
    /\ result.tag = "Err"

\* C9: Data::from_str returns Ok iff the input holds exactly one ':' and the
\* text before it parses as a usize; the result is then Kind::Str holding the
\* whole text after the ':' with length the parsed prefix; every other input
\* gives an io::Error of kind InvalidData.  No other Kind is produced.
C9_DataFromStrCharacterised ==
    Entry = "Data::from_str" =>
        /\ IF ColonCount(input) = 1 /\ ParseUsize(BeforeColon(input)).ok
           THEN result = DataOk(ParseUsize(BeforeColon(input)).value, AfterColon(input))
           ELSE result.tag = "Err" /\ result.kind = "InvalidData"
        /\ result.tag = "Ok" => result.kind = "Str"

\* C9 witness: Data::from_str returned a Data whose content is not empty.
C9_Witness ==
    /\ Entry = "Data::from_str"
    /\ result.tag = "Ok"
    /\ result.content # <<>>

\* C10: IntegerFieldKey::from_str never returns Ok: InvalidInput when the
\* input holds a numeric character, InvalidData when it holds neither a
\* numeric character nor ':', and a panic (the unwrap of the failed i32
\* parse) when it holds ':' and no numeric character.
C10_IntegerFieldKeyNeverOk ==
    Entry = "IntegerFieldKey::from_str" =>
        /\ result.tag # "Ok"
        /\ IF \E i \in 1..Len(input) : input[i] \in NumericChars
           THEN result.tag = "Err" /\ result.kind = "InvalidInput"
           ELSE IF HasColon(input)
           THEN result.tag = "Panic"
           ELSE result.tag = "Err" /\ result.kind = "InvalidData"

\* C10 witness: IntegerFieldKey::from_str reached the unwrap and panicked.
C10_Witness ==
    /\ Entry = "IntegerFieldKey::from_str"
    /\ result.tag = "Panic"

====
